---- MODULE Spec2Model ----
(***************************************************************************)
(* Model of python/export_model.py: the export of a Stable Baselines3      *)
(* checkpoint to a traced, frozen TorchScript module plus a JSON metadata  *)
(* file.  Strings that the program inspects character by character (the   *)
(* algorithm names, the class names, the output file name) are sequences   *)
(* of one-character strings.                                               *)
(***************************************************************************)
EXTENDS Integers, Sequences, FiniteSets, TLC

VARIABLES
    entry,       \* "main": run as a script (main); "call": export_to_torchscript called directly
    args,        \* the arguments: algorithm, output, verbose
    ckpt,        \* the checkpoint file at args.input and what it holds
    pc,          \* position in main / export_to_torchscript
    attempts,    \* the loader classes whose load() was called, in order
    model,       \* the object load_sb3_model returned
    loc,         \* the locals of export_to_torchscript
    metadata,    \* the metadata dictionary
    files,       \* the output files: path -> what it holds
    writes,      \* every write of an output file, in order
    steps,       \* the steps of export_to_torchscript completed so far, in order
    err,         \* the exception raised, "" when none
    exitStatus,  \* the process's exit status, -1 while running
    stderr,      \* what main printed to stderr
    dirCreated   \* the output directory was created by main

vars == <<entry, args, ckpt, pc, attempts, model, loc, metadata, files, writes,
          steps, err, exitStatus, stderr, dirCreated>>

----------------------------------------------------------------------------
(* Bounds of the model. *)

MaxDim == 2      \* largest entry of a shape
MaxRank == 2     \* longest shape
MaxN == 3        \* largest n of a discrete action space

----------------------------------------------------------------------------
(* Names. *)

SAC == <<"S", "A", "C">>
TD3 == <<"T", "D", "3">>
PPO == <<"P", "P", "O">>
A2C == <<"A", "2", "C">>
DQN == <<"D", "Q", "N">>

\* The list `supported` of detect_algorithm.
Supported == <<SAC, TD3, PPO, A2C, DQN>>

\* A variant of the dictionary with TD3 entered before SAC.
AlgoOrderTD3First == <<TD3, SAC, PPO, A2C, DQN>>

\* The keys of algo_classes in insertion order.
AlgoOrder == <<SAC, TD3, PPO, A2C, DQN>>

Algos == {AlgoOrder[i] : i \in 1..Len(AlgoOrder)}

\* str.upper on one character.
UpperChar(c) ==
    CASE c = "s" -> "S" [] c = "a" -> "A" [] c = "c" -> "C" [] c = "t" -> "T"
      [] c = "d" -> "D" [] c = "p" -> "P" [] c = "o" -> "O" [] c = "q" -> "Q"
      [] c = "n" -> "N" [] c = "x" -> "X" [] c = "y" -> "Y" [] c = "z" -> "Z"
      [] OTHER -> c

\* str.upper
Upper(s) == [i \in 1..Len(s) |-> UpperChar(s[i])]

\* `needle in hay` on strings
Contains(hay, needle) ==
    \E i \in 0..(Len(hay) - Len(needle)) :
        SubSeq(hay, i + 1, i + Len(needle)) = needle

\* A variant of the dictionary with the A2C class entered under 'PPO'.
AlgoClassesWrongEntry(key) == IF key = PPO THEN A2C ELSE key

\* algo_classes: the loader class stored under a key, named by its __name__.

AlgoClasses(key) == key

\* detect_algorithm: the first name of `supported` that occurs in the
\* upper-cased class name; ValueError when none does.
DetectAlgorithm(className) ==
    LET up == Upper(className)
        hits == {i \in 1..Len(Supported) : Contains(up, Supported[i])}
    IN  IF hits = {}
        THEN [ok |-> FALSE, algo |-> <<>>]
        ELSE [ok |-> TRUE,
              algo |-> Supported[CHOOSE i \in hits : \A j \in hits : i <= j]]

----------------------------------------------------------------------------
(* The pure functions of the export. *)

\* A variant that adds the entries.
RECURSIVE NpProdSum(_)
NpProdSum(shape) ==
    IF shape = <<>> THEN 0 ELSE Head(shape) + NpProdSum(Tail(shape))

\* int(np.prod(shape)) of a tuple of ints: 1 for the empty tuple.
RECURSIVE NpProd(_)
NpProd(shape) ==
    IF shape = <<>> THEN 1 ELSE Head(shape) * NpProd(Tail(shape))

\* get_dimensions: the observation shape, and the action shape taken from
\* the action space's `shape` when it has that attribute, (1,) when it has
\* only `n`, ValueError when it has neither.  A shape may be None.
GetDimensions(m) ==
    LET a == m.action_space
        o == m.observation_space
    IN  IF a.has_shape
        THEN [ok |-> TRUE, obs_none |-> o.shape_none, obs_shape |-> o.shape,
              act_none |-> a.shape_none, act_shape |-> a.shape]
        ELSE IF a.has_n
        THEN [ok |-> TRUE, obs_none |-> o.shape_none, obs_shape |-> o.shape,
              act_none |-> FALSE, act_shape |-> <<1>>]
        ELSE [ok |-> FALSE, obs_none |-> o.shape_none, obs_shape |-> o.shape,
              act_none |-> FALSE, act_shape |-> <<>>]

\* A variant whose first branch tests for 'SAC' alone.
CreateExportablePolicyNoTD3(algorithm) ==
    IF algorithm \in {SAC}
    THEN [ok |-> TRUE, wrapper |-> "OnnxableSACTD3Policy", net |-> "policy.actor"]
    ELSE IF algorithm \in {PPO, A2C}
    THEN [ok |-> TRUE, wrapper |-> "OnnxablePPOA2CPolicy", net |-> "policy"]
    ELSE IF algorithm = DQN
    THEN [ok |-> TRUE, wrapper |-> "OnnxableDQNPolicy", net |-> "policy.q_net"]
    ELSE [ok |-> FALSE, wrapper |-> "", net |-> ""]

\* create_exportable_policy: the wrapper class and the sub-network it is
\* given; ValueError for a name outside the five.
CreateExportablePolicy(algorithm) ==
    IF algorithm \in {SAC, TD3}
    THEN [ok |-> TRUE, wrapper |-> "OnnxableSACTD3Policy", net |-> "policy.actor"]
    ELSE IF algorithm \in {PPO, A2C}
    THEN [ok |-> TRUE, wrapper |-> "OnnxablePPOA2CPolicy", net |-> "policy"]
    ELSE IF algorithm = DQN
    THEN [ok |-> TRUE, wrapper |-> "OnnxableDQNPolicy", net |-> "policy.q_net"]
    ELSE [ok |-> FALSE, wrapper |-> "", net |-> ""]

\* The width of the last layer of the policy's action head: one output per
\* action component for a continuous space, one logit or Q-value per action
\* for a discrete space.
NetOut(a) == IF a.has_n THEN a.n ELSE NpProd(a.shape)

\* The shape of forward(observation) for a (1, obs_dim) observation.  The
\* SAC/TD3 and PPO/A2C wrappers return the network's output; the DQN wrapper
\* returns argmax(q_values, dim=1).float().unsqueeze(1).
ForwardShape(wrapper, a) ==
    IF wrapper = "OnnxableDQNPolicy" THEN <<1, 1>> ELSE <<1, NetOut(a)>>

\* str.rfind('.') + 1: the position of the last dot, 0 when there is none.
RFindDot(name) ==
    LET dots == {i \in 1..Len(name) : name[i] = "."}
    IN  IF dots = {} THEN 0 ELSE CHOOSE i \in dots : \A j \in dots : j <= i

\* PurePath.suffix: the last dot and what follows it, unless the dot is the
\* first or the last character of the name.
PathSuffix(name) ==
    LET i == RFindDot(name)
    IN  IF 1 < i /\ i < Len(name) THEN SubSeq(name, i, Len(name)) ELSE <<>>

DotJson == <<".", "j", "s", "o", "n">>

\* Path(output_path).with_suffix('.json'), on the final component.
MetadataPath(output) ==
    LET old == PathSuffix(output)
    IN  SubSeq(output, 1, Len(output) - Len(old)) \o DotJson

----------------------------------------------------------------------------
(* The inputs. *)

LowerNames ==
    {<<"s", "a", "c">>, <<"t", "d", "3">>, <<"p", "p", "o">>,
     <<"a", "2", "c">>, <<"d", "q", "n">>}

\* The choices argparse allows for --algorithm.
Choices == Algos \cup LowerNames

\* No algorithm given: None (and the empty string, which is as falsy).
NoAlgorithm == <<>>

XYZ == <<"x", "y", "z">>

AlgorithmArgs == {NoAlgorithm, XYZ} \cup Choices

Shapes == UNION {[1..k -> 1..MaxDim] : k \in 0..MaxRank}

ObsSpaces ==
    {[shape_none |-> FALSE, shape |-> s] : s \in Shapes}
      \cup {[shape_none |-> TRUE, shape |-> <<>>]}

\* A continuous (Box) space of the given shape.
Box(s) ==
    [has_shape |-> TRUE, shape_none |-> FALSE, shape |-> s,
     has_n |-> FALSE, n |-> 0]

\* A Discrete space as the gym libraries define it: shape () and n.
Discrete(k) ==
    [has_shape |-> TRUE, shape_none |-> FALSE, shape |-> <<>>,
     has_n |-> TRUE, n |-> k]

\* An object with n and no shape attribute.
OnlyN(k) ==
    [has_shape |-> FALSE, shape_none |-> FALSE, shape |-> <<>>,
     has_n |-> TRUE, n |-> k]

\* An object with neither attribute.
Opaque ==
    [has_shape |-> FALSE, shape_none |-> FALSE, shape |-> <<>>,
     has_n |-> FALSE, n |-> 0]

\* A composite space, whose shape is None.
Composite ==
    [has_shape |-> TRUE, shape_none |-> TRUE, shape |-> <<>>,
     has_n |-> FALSE, n |-> 0]

ActionSpaces ==
    {Box(s) : s \in Shapes} \cup {Discrete(k) : k \in 1..MaxN}
      \cup {OnlyN(k) : k \in 1..MaxN} \cup {Opaque, Composite}

BaseObs == [shape_none |-> FALSE, shape |-> <<2>>]

BaseAct == Box(<<1>>)

MPt == <<"m", ".", "p", "t">>

OutputNames ==
    {MPt,
     <<"m", ".", "j", "s", "o", "n">>,
     <<"m">>,
     <<"m", ".">>,
     <<".", "p", "t">>,
     <<".", "j", "s", "o", "n">>,
     <<"a", ".", "b", ".", "p", "t">>,
     <<"m", ".", "p", "t", ".", "j", "s", "o", "n">>}

\* The action spaces an algorithm works with: SAC and TD3 continuous ones,
\* DQN discrete ones, PPO and A2C both (and, here, the other kinds).
SupportsSpace(algo, a) ==
    IF algo \in {SAC, TD3} THEN a.has_shape /\ ~a.shape_none /\ ~a.has_n
    ELSE IF algo = DQN THEN a.has_n
    ELSE TRUE

\* A checkpoint some algorithm wrote (its own loader accepts it, others
\* may when they support its action space), a file that is no checkpoint,
\* and no file at all.
Checkpoints(obsSpaces, actSpaces) ==
    {c \in [exists : {TRUE}, producer : Algos, accepts : SUBSET Algos,
             observation_space : obsSpaces, action_space : actSpaces] :
        /\ c.producer \in c.accepts
        /\ \A l \in c.accepts : SupportsSpace(l, c.action_space)}
      \cup {[exists |-> e, producer |-> <<>>, accepts |-> {},
             observation_space |-> BaseObs, action_space |-> BaseAct] :
               e \in BOOLEAN}

OwnLoaderOnly(c) == c.exists /\ c.accepts = {c.producer}

NoModel ==
    [loaded |-> FALSE, class |-> <<>>,
     observation_space |-> BaseObs, action_space |-> BaseAct]

NoMetadata ==
    [made |-> FALSE, algorithm |-> <<>>, obs_dim |-> 0, act_dim |-> 0,
     obs_shape |-> <<>>, act_shape |-> <<>>, output_model |-> <<>>]

Locals(algorithm) ==
    [algorithm |-> algorithm, mismatch |-> FALSE, warned |-> FALSE,
     obs_shape |-> <<>>, act_shape |-> <<>>, obs_dim |-> 0, act_dim |-> 0,
     wrapper |-> "", net |-> "", dummy_input |-> <<>>, test_output |-> <<>>,
     metadata_path |-> <<>>]

\* The state before the first statement, for the given inputs.
Start(e, a, c) ==
    /\ entry = e
    /\ args = a
    /\ ckpt = c
    /\ pc = IF e = "main" THEN "parse" ELSE "load"
    /\ attempts = <<>>
    /\ model = NoModel
    /\ loc = Locals(a.algorithm)
    /\ metadata = NoMetadata
    /\ files = <<>>
    /\ writes = <<>>
    /\ steps = <<>>
    /\ err = ""
    /\ exitStatus = -1
    /\ stderr = ""
    /\ dirCreated = FALSE

\* Every algorithm argument against every checkpoint.
InitLoad ==
    \E e \in {"main", "call"}, alg \in AlgorithmArgs, v \in BOOLEAN,
       c \in Checkpoints({BaseObs}, {BaseAct, Discrete(2)}) :
        Start(e, [algorithm |-> alg, output |-> MPt, verbose |-> v], c)

\* Every observation and action space.
InitDims ==
    \E e \in {"main", "call"}, alg \in {NoAlgorithm, PPO},
       c \in Checkpoints(ObsSpaces, ActionSpaces) :
        /\ OwnLoaderOnly(c)
        /\ Start(e, [algorithm |-> alg, output |-> MPt, verbose |-> FALSE], c)

\* Every output name.
InitPath ==
    \E e \in {"main", "call"}, out \in OutputNames,
       c \in Checkpoints({BaseObs}, {BaseAct, Discrete(2)}) :
        /\ OwnLoaderOnly(c)
        /\ Start(e, [algorithm |-> NoAlgorithm, output |-> out, verbose |-> FALSE], c)

Init == InitLoad \/ InitDims \/ InitPath

----------------------------------------------------------------------------
(* The steps of main and export_to_torchscript. *)

inputs == <<entry, args, ckpt>>

\* A variant that saves the module before the test call.
AfterSaveBeforeRun(step) ==
    CASE step = "load" -> "detect"
      [] step = "detect" -> "dims"
      [] step = "dims" -> "wrap"
      [] step = "wrap" -> "trace"
      [] step = "trace" -> "freeze"
      [] step = "freeze" -> "save"
      [] step = "save" -> "run"
      [] step = "run" -> "metadata"
      [] step = "metadata" -> "returned"

\* The statement order of export_to_torchscript: the step that follows.
After(step) ==
    CASE step = "load" -> "detect"
      [] step = "detect" -> "dims"
      [] step = "dims" -> "wrap"
      [] step = "wrap" -> "trace"
      [] step = "trace" -> "freeze"
      [] step = "freeze" -> "run"
      [] step = "run" -> "save"
      [] step = "save" -> "metadata"
      [] step = "metadata" -> "returned"

\* A variant whose except clause catches ValueError alone: any other
\* exception leaves main with a traceback.
RaiseCatchValueError(e) ==
    /\ err' = e
    /\ IF entry = "main"
       THEN /\ pc' = "exited"
            /\ exitStatus' = 1
            /\ stderr' = IF e \in
                             {"ValueError: Unknown algorithm",
                              "ValueError: Could not load model",
                              "ValueError: Could not detect algorithm",
                              "ValueError: Unsupported action space type",
                              "ValueError: Unsupported algorithm"}
                          THEN "Error" ELSE "Traceback"
       ELSE pc' = "raised" /\ UNCHANGED <<exitStatus, stderr>>

\* An exception leaves export_to_torchscript: main's except clause prints
\* "Error: ..." and exits with status 1; a direct caller receives it.
Raise(e) ==
    /\ err' = e
    /\ IF entry = "main"
       THEN pc' = "exited" /\ exitStatus' = 1 /\ stderr' = "Error"
       ELSE pc' = "raised" /\ UNCHANGED <<exitStatus, stderr>>

Fail(e) ==
    /\ Raise(e)
    /\ UNCHANGED <<attempts, model, loc, metadata, files, writes, steps, dirCreated>>

Done(step) ==
    /\ pc' = After(step)
    /\ steps' = Append(steps, step)
    /\ UNCHANGED <<err, exitStatus, stderr, dirCreated>>

Put(f, k, v) == [x \in (DOMAIN f) \cup {k} |-> IF x = k THEN v ELSE f[x]]

\* What cls.load returns for the checkpoint: an instance of cls.
Loaded(cls) ==
    [loaded |-> TRUE, class |-> cls,
     observation_space |-> ckpt.observation_space,
     action_space |-> ckpt.action_space]

\* parser.parse_args: a value outside the choices ends the process with
\* status 2.
ParseArgs ==
    /\ pc = "parse"
    /\ IF args.algorithm \in Choices \cup {NoAlgorithm}
       THEN pc' = "check_input" /\ UNCHANGED <<exitStatus, stderr>>
       ELSE pc' = "exited" /\ exitStatus' = 2 /\ stderr' = "usage"
    /\ UNCHANGED <<inputs, attempts, model, loc, metadata, files, writes, steps,
                   err, dirCreated>>

\* main: validate the input path.
CheckInput ==
    /\ pc = "check_input"
    /\ IF ckpt.exists
       THEN pc' = "mkdir" /\ UNCHANGED <<exitStatus, stderr>>
       ELSE pc' = "exited" /\ exitStatus' = 1 /\ stderr' = "Error"
    /\ UNCHANGED <<inputs, attempts, model, loc, metadata, files, writes, steps,
                   err, dirCreated>>

\* main: create the output directory.  mkdir is outside the try block, so
\* its exception ends the process with a traceback.
MkOutputDir ==
    /\ pc = "mkdir"
    /\ \E ok \in BOOLEAN :
        IF ok
        THEN /\ pc' = "load"
             /\ dirCreated' = TRUE
             /\ UNCHANGED <<err, exitStatus, stderr>>
        ELSE /\ pc' = "exited"
             /\ err' = "OSError: mkdir"
             /\ exitStatus' = 1
             /\ stderr' = "Traceback"
             /\ UNCHANGED dirCreated
    /\ UNCHANGED <<inputs, attempts, model, loc, metadata, files, writes, steps>>

\* load_sb3_model with an algorithm: one load with the named class.
LoadSpecified ==
    /\ pc = "load"
    /\ loc.algorithm # NoAlgorithm
    /\ LET a == Upper(loc.algorithm)
       IN  IF a \notin Algos
           THEN Fail("ValueError: Unknown algorithm")
           ELSE /\ attempts' = Append(attempts, AlgoClasses(a))
                /\ IF AlgoClasses(a) \in ckpt.accepts
                   THEN /\ model' = Loaded(AlgoClasses(a))
                        /\ Done("load")
                   ELSE /\ Raise("LoadError")
                        /\ UNCHANGED <<model, steps, dirCreated>>
                /\ UNCHANGED <<loc, metadata, files, writes>>
    /\ UNCHANGED inputs

\* load_sb3_model without an algorithm: one pass of the loop over
\* algo_classes; a load that raises is skipped.
LoadAutoTry ==
    /\ pc = "load"
    /\ loc.algorithm = NoAlgorithm
    /\ Len(attempts) < Len(AlgoOrder)
    /\ LET cls == AlgoClasses(AlgoOrder[Len(attempts) + 1])
       IN  /\ attempts' = Append(attempts, cls)
           /\ IF cls \in ckpt.accepts
              THEN /\ model' = Loaded(cls)
                   /\ Done("load")
              ELSE UNCHANGED <<model, pc, steps, err, exitStatus, stderr, dirCreated>>
    /\ UNCHANGED <<inputs, loc, metadata, files, writes>>

\* load_sb3_model without an algorithm: the loop ended without a return.
LoadAutoFail ==
    /\ pc = "load"
    /\ loc.algorithm = NoAlgorithm
    /\ Len(attempts) = Len(AlgoOrder)
    /\ Fail("ValueError: Could not load model")
    /\ UNCHANGED inputs

\* detected_algo = detect_algorithm(model), the warning, and the
\* reassignment of `algorithm`.
Detect ==
    /\ pc = "detect"
    /\ LET d == DetectAlgorithm(model.class)
           differs == loc.algorithm # NoAlgorithm /\ Upper(loc.algorithm) # d.algo
       IN  IF ~d.ok
           THEN Fail("ValueError: Could not detect algorithm")
           ELSE /\ loc' = [loc EXCEPT !.algorithm = d.algo,
                                      !.mismatch = differs,
                                      !.warned = differs /\ args.verbose]
                /\ Done("detect")
                /\ UNCHANGED <<attempts, model, metadata, files, writes>>
    /\ UNCHANGED inputs

\* get_dimensions and the two products.  np.prod of None is not a number.
Dims ==
    /\ pc = "dims"
    /\ LET g == GetDimensions(model)
       IN  IF ~g.ok
           THEN Fail("ValueError: Unsupported action space type")
           ELSE IF g.obs_none \/ g.act_none
           THEN Fail("TypeError")
           ELSE /\ loc' = [loc EXCEPT !.obs_shape = g.obs_shape,
                                      !.act_shape = g.act_shape,
                                      !.obs_dim = NpProd(g.obs_shape),
                                      !.act_dim = NpProd(g.act_shape)]
                /\ Done("dims")
                /\ UNCHANGED <<attempts, model, metadata, files, writes>>
    /\ UNCHANGED inputs

\* create_exportable_policy, eval(), and the dummy input.
Wrap ==
    /\ pc = "wrap"
    /\ LET c == CreateExportablePolicy(loc.algorithm)
       IN  IF ~c.ok
           THEN Fail("ValueError: Unsupported algorithm")
           ELSE /\ loc' = [loc EXCEPT !.wrapper = c.wrapper,
                                      !.net = c.net,
                                      !.dummy_input = <<1, loc.obs_dim>>]
                /\ Done("wrap")
                /\ UNCHANGED <<attempts, model, metadata, files, writes>>
    /\ UNCHANGED inputs

\* th.jit.trace, which may raise.
Trace ==
    /\ pc = "trace"
    /\ \E ok \in BOOLEAN :
        IF ok
        THEN /\ Done("trace")
             /\ UNCHANGED <<attempts, model, loc, metadata, files, writes>>
        ELSE Fail("TraceError")
    /\ UNCHANGED inputs

\* th.jit.freeze and th.jit.optimize_for_inference, which may raise.
Freeze ==
    /\ pc = "freeze"
    /\ \E ok \in BOOLEAN :
        IF ok
        THEN /\ Done("freeze")
             /\ UNCHANGED <<attempts, model, loc, metadata, files, writes>>
        ELSE Fail("FreezeError")
    /\ UNCHANGED inputs

\* test_output = frozen_module(dummy_input); its shape is printed when
\* verbose and compared with nothing.
Run ==
    /\ pc = "run"
    /\ \E ok \in BOOLEAN :
        IF ok
        THEN /\ loc' = [loc EXCEPT !.test_output =
                            ForwardShape(loc.wrapper, model.action_space)]
             /\ Done("run")
             /\ UNCHANGED <<attempts, model, metadata, files, writes>>
        ELSE Fail("RuntimeError")
    /\ UNCHANGED inputs

\* th.jit.save(frozen_module, output_path), which may raise.
Save ==
    /\ pc = "save"
    /\ \E ok \in BOOLEAN :
        IF ok
        THEN /\ files' = Put(files, args.output, "module")
             /\ writes' = Append(writes, <<args.output, "module">>)
             /\ Done("save")
             /\ UNCHANGED <<attempts, model, loc, metadata>>
        ELSE Fail("SaveError")
    /\ UNCHANGED inputs

\* The metadata dictionary, and its dump to the output path with the suffix
\* replaced by .json; open(.., 'w') may raise.
WriteMetadata ==
    /\ pc = "metadata"
    /\ LET path == MetadataPath(args.output)
           md == [made |-> TRUE, algorithm |-> loc.algorithm,
                  obs_dim |-> loc.obs_dim, act_dim |-> loc.act_dim,
                  obs_shape |-> loc.obs_shape, act_shape |-> loc.act_shape,
                  output_model |-> args.output]
       IN  \E ok \in BOOLEAN :
            /\ metadata' = md
            /\ loc' = [loc EXCEPT !.metadata_path = path]
            /\ IF ok
               THEN /\ files' = Put(files, path, "metadata")
                    /\ writes' = Append(writes, <<path, "metadata">>)
                    /\ Done("metadata")
               ELSE /\ Raise("OSError: metadata")
                    /\ UNCHANGED <<files, writes, steps, dirCreated>>
            /\ UNCHANGED <<attempts, model>>
    /\ UNCHANGED inputs

\* main: export_to_torchscript returned; sys.exit(0).
Exit0 ==
    /\ pc = "returned"
    /\ entry = "main"
    /\ pc' = "exited"
    /\ exitStatus' = 0
    /\ UNCHANGED <<inputs, attempts, model, loc, metadata, files, writes, steps,
                   err, stderr, dirCreated>>

Next ==
    \/ ParseArgs
    \/ CheckInput
    \/ MkOutputDir
    \/ LoadSpecified
    \/ LoadAutoTry
    \/ LoadAutoFail
    \/ Detect
    \/ Dims
    \/ Wrap
    \/ Trace
    \/ Freeze
    \/ Run
    \/ Save
    \/ WriteMetadata
    \/ Exit0

Spec == Init /\ [][Next]_vars

----------------------------------------------------------------------------
(* The properties. *)

IsPrefix(s, t) == Len(s) <= Len(t) /\ SubSeq(t, 1, Len(s)) = s

StepDone(step) == \E i \in 1..Len(steps) : steps[i] = step

NotDims(step) == step # "dims"

\* The number of elements of a tensor of the given shape: the number of
\* index tuples.
NumElements(shape) ==
    Cardinality({ix \in [1..Len(shape) -> 1..MaxDim] :
                    \A i \in 1..Len(shape) : ix[i] <= shape[i]})

\* C1: the steps run in the order load, detect, select wrapper, trace,
\* freeze, run on the dummy input, save, write metadata; a file is written
\* only when every step up to the test run was completed and nothing before
\* persistence raised; the metadata is written only after the module.
C1_FixedOrder ==
    /\ IsPrefix(SelectSeq(steps, NotDims),
                <<"load", "detect", "wrap", "trace", "freeze", "run", "save", "metadata">>)
    /\ writes # <<>> =>
         /\ SubSeq(SelectSeq(steps, NotDims), 1, 6)
              = <<"load", "detect", "wrap", "trace", "freeze", "run">>
         /\ err \in {"", "OSError: metadata"}
    /\ \A i \in 1..Len(writes) :
         writes[i][2] = "metadata" => \E j \in 1..(i - 1) : writes[j][2] = "module"
    /\ DOMAIN files # {} => writes # <<>>

C1_Witness ==
    /\ Len(writes) = 2
    /\ writes[2][2] = "metadata"
    /\ Len(steps) = 9

\* C2: a test output whose shape is not (1, act_dim) leaves no file written
\* and ends the run in an error.
C2_ShapeVerified ==
    (loc.test_output # <<>> /\ loc.test_output # <<1, loc.act_dim>>) =>
        /\ DOMAIN files = {}
        /\ pc # "returned"
        /\ exitStatus # 0

\* C3: with no algorithm given, the algorithm recorded in the metadata is
\* the one that produced the checkpoint.
C3_DetectsProducer ==
    (StepDone("metadata") /\ args.algorithm = NoAlgorithm /\ ckpt.producer \in Algos) =>
        metadata.algorithm = ckpt.producer

\* C4: for the detected algorithm the matching sub-network is selected and
\* "Unsupported algorithm" is never raised: the actor for SAC and TD3, the
\* whole policy for PPO and A2C, the Q-network for DQN; a name outside the
\* five is refused.
C4_WrapperMatches ==
    /\ err # "ValueError: Unsupported algorithm"
    /\ StepDone("detect") => loc.algorithm \in {SAC, TD3, PPO, A2C, DQN}
    /\ StepDone("wrap") =>
         /\ loc.algorithm \in {SAC, TD3} =>
              loc.wrapper = "OnnxableSACTD3Policy" /\ loc.net = "policy.actor"
         /\ loc.algorithm \in {PPO, A2C} =>
              loc.wrapper = "OnnxablePPOA2CPolicy" /\ loc.net = "policy"
         /\ loc.algorithm = DQN =>
              loc.wrapper = "OnnxableDQNPolicy" /\ loc.net = "policy.q_net"
    /\ \A a \in AlgorithmArgs \ {SAC, TD3, PPO, A2C, DQN} :
         ~CreateExportablePolicy(a).ok

C4_Witness == StepDone("wrap") /\ loc.algorithm = TD3

\* C5: a run that returned wrote two distinct files, and the output path
\* still holds the module.
C5_TwoDistinctFiles ==
    StepDone("metadata") =>
        /\ Cardinality(DOMAIN files) = 2
        /\ loc.metadata_path # args.output
        /\ files[args.output] = "module"

\* C6: obs_dim and act_dim are the numbers of elements of obs_shape and
\* act_shape, the shapes are recorded unchanged, and the dummy input has
\* shape (1, obs_dim).
C6_MetadataShapes ==
    /\ StepDone("wrap") =>
         loc.dummy_input = <<1, NumElements(model.observation_space.shape)>>
    /\ metadata.made =>
         /\ metadata.obs_shape = model.observation_space.shape
         /\ model.action_space.has_shape =>
              metadata.act_shape = model.action_space.shape
         /\ metadata.obs_dim = NumElements(metadata.obs_shape)
         /\ metadata.act_dim = NumElements(metadata.act_shape)
         /\ loc.dummy_input = <<1, metadata.obs_dim>>

C6_Witness ==
    /\ metadata.made
    /\ metadata.obs_shape = <<1, 2>>
    /\ metadata.act_shape = <<2, 1>>

\* C7: a discrete action space (one with n) gives act_shape (1,) and
\* act_dim 1, also when it has a shape attribute; an action space with
\* neither attribute makes get_dimensions raise.
C7_DiscreteActShape ==
    /\ (StepDone("dims") /\ model.action_space.has_n) =>
         loc.act_shape = <<1>> /\ loc.act_dim = 1
    /\ (metadata.made /\ model.action_space.has_n) =>
         metadata.act_shape = <<1>> /\ metadata.act_dim = 1
    /\ (model.loaded /\ ~model.action_space.has_n /\ ~model.action_space.has_shape) =>
         ~StepDone("dims")

C9_LoadOrder ==
    /\ args.algorithm = NoAlgorithm =>
         /\ IsPrefix(attempts, <<SAC, TD3, PPO, A2C, DQN>>)
         /\ \A i \in 1..(Len(attempts) - 1) : attempts[i] \notin ckpt.accepts
         /\ model.loaded =>
              /\ attempts # <<>>
              /\ attempts[Len(attempts)] \in ckpt.accepts
              /\ model.class = attempts[Len(attempts)]
         /\ (~model.loaded /\ attempts # <<>>) =>
              attempts[Len(attempts)] \notin ckpt.accepts
         /\ err = "ValueError: Could not load model" =>
              /\ attempts = <<SAC, TD3, PPO, A2C, DQN>>
              /\ \A i \in 1..5 : attempts[i] \notin ckpt.accepts
         /\ (Len(attempts) = 5 /\ ~model.loaded /\ pc # "load") =>
              err = "ValueError: Could not load model"
         /\ err # "LoadError"
    /\ args.algorithm # NoAlgorithm =>
         /\ Len(attempts) <= 1
         /\ attempts # <<>> =>
              /\ attempts = <<Upper(args.algorithm)>>
              /\ attempts[1] \in {SAC, TD3, PPO, A2C, DQN}
              /\ attempts[1] \in ckpt.accepts => model.loaded /\ model.class = attempts[1]
              /\ attempts[1] \notin ckpt.accepts => ~model.loaded /\ err = "LoadError"
         /\ err = "ValueError: Unknown algorithm" =>
              attempts = <<>> /\ Upper(args.algorithm) \notin {SAC, TD3, PPO, A2C, DQN}
         /\ (Upper(args.algorithm) \notin {SAC, TD3, PPO, A2C, DQN}
               /\ pc \in {"raised", "exited"} /\ exitStatus # 2) =>
              err = "ValueError: Unknown algorithm" /\ ~model.loaded
         /\ err # "ValueError: Could not load model"

C9_Witness ==
    /\ args.algorithm = NoAlgorithm
    /\ attempts = <<SAC, TD3, PPO>>
    /\ model.loaded
    /\ ckpt.accepts = {PPO, A2C}

\* C10: with an algorithm given and the load successful, the detected and
\* recorded algorithm is the upper-cased given one, whatever produced the
\* checkpoint, and the "differs from detected" branch is not taken.
C10_SpecifiedIsRecorded ==
    args.algorithm # NoAlgorithm =>
        /\ StepDone("detect") =>
             /\ loc.algorithm = Upper(args.algorithm)
             /\ ~loc.mismatch
             /\ ~loc.warned
        /\ metadata.made => metadata.algorithm = Upper(args.algorithm)

C10_Witness ==
    /\ args.algorithm = <<"p", "p", "o">>
    /\ ckpt.producer = A2C
    /\ metadata.made
    /\ metadata.algorithm = PPO

====
